---- MODULE Spec2Model ----
(***************************************************************************)
(* The tabular diff engine of excel_diff.py: normalize_dimensions,         *)
(* compare_sheets and create_single_sheet_diff, applied to bounded grids.  *)
(*                                                                         *)
(* A cell is what openpyxl hands over after get_sheet_data replaced None   *)
(* by "": a text ([str |-> s]) or a number ([int |-> n]).  The blank       *)
(* sentinel is the text "".  A row is a sequence of cells, a grid a        *)
(* sequence of rows (rows may differ in length).                           *)
(***************************************************************************)
EXTENDS Integers, Sequences, FiniteSets, TLC

VARIABLES
    data1,            \* the old grid handed to the engine
    data2,            \* the new grid handed to the engine
    pc,               \* which call has returned last
    norm1, norm2,     \* the pair returned by normalize_dimensions(data1, data2)
    again1, again2,   \* the pair returned by normalize_dimensions(norm1, norm2)
    diff_grid,        \* the diff grid returned by the last comparison
    has_differences,  \* the flag returned by compare_sheets
    rev_grid,         \* the diff grid of compare_sheets(data2, data1)
    rev_differences,  \* the flag of compare_sheets(data2, data1)
    diff_type,        \* the diff_type passed to create_single_sheet_diff
    wb1,              \* the old workbook: sheet name -> the rows of the sheet
    wb2,              \* the new workbook
    enum,             \* the order in which all_sheets is enumerated, first run
    enum2,            \* the order in which all_sheets is enumerated, second run
    comparisons,      \* the list built by main, first run
    comparisons2,     \* the list built by main, second run
    pending,          \* sheet names no task has handled yet
    finished,         \* the entries of the tasks, in order of completion
    parallel,         \* the entries of the tasks ordered by name
    worksheet,        \* the rows of the sheet handed to get_sheet_data
    extracted,        \* the grid returned by get_sheet_data for worksheet
    old_cell,         \* cell1 of one position of the two grids
    new_cell,         \* cell2 of the same position
    test_order,       \* the order in which the tests of the cell are made
    cell_result,      \* the cell and flag the inner loop body gives
    ordered_result,   \* the cell and flag with the tests made in test_order
    row_idx,          \* the row the scan of compare_sheets is in
    col_idx,          \* the column the scan of compare_sheets is at
    scan_row,         \* diff_row: the cells of the current row emitted so far
    column,           \* the index passed to get_column_letter
    letter_idx,       \* col_idx of get_column_letter while its loop runs
    letters           \* result of get_column_letter, as code points

extravars == <<worksheet, extracted, old_cell, new_cell, test_order, cell_result,
               ordered_result, row_idx, col_idx, scan_row, column, letter_idx,
               letters>>

enginevars == <<data1, data2, norm1, norm2, again1, again2, diff_grid,
                has_differences, rev_grid, rev_differences, diff_type>>

wbvars == <<wb1, wb2, enum, enum2, comparisons, comparisons2, pending,
            finished, parallel>>

vars == <<data1, data2, pc, norm1, norm2, again1, again2, diff_grid,
          has_differences, rev_grid, rev_differences, diff_type, wb1, wb2,
          enum, enum2, comparisons, comparisons2, pending, finished, parallel,
          worksheet, extracted, old_cell, new_cell, test_order, cell_result, ordered_result,
          row_idx, col_idx, scan_row, column, letter_idx, letters>>

---------------------------------------------------------------------------
(* Bounds of the model *)

MaxRows == 2

MaxCells == 4

\* Cells of a pair of grids whose values are told apart by type only
MaxTypedCells == 3

\* Cells of all sheets of the two workbooks together
MaxBookCells == 2

\* Cells of the sheet read by get_sheet_data
MaxSheetCells == 6

\* Cells of a pair of grids scanned cell by cell
MaxScanCells == 3

\* The largest column index passed to get_column_letter
MaxColumn == 702

---------------------------------------------------------------------------
(* Cell values *)

Text(s) == [str |-> s]

Number(n) == [int |-> n]

\* Python's None, the value of a cell that holds nothing.
PyNone == [none |-> TRUE]

IsText(cell) == DOMAIN cell = {"str"}

IsNone(cell) == DOMAIN cell = {"none"}

Blank == Text("")

CellValues == {Blank, Text("a"), Number(5)}

\* Values with a text and a number of the same string form
TypedValues == {Blank, Text("5"), Number(5), Text("a")}

Digit(d) ==
    CASE d = 0 -> "0" [] d = 1 -> "1" [] d = 2 -> "2" [] d = 3 -> "3"
      [] d = 4 -> "4" [] d = 5 -> "5" [] d = 6 -> "6" [] d = 7 -> "7"
      [] d = 8 -> "8" [] d = 9 -> "9"

RECURSIVE NatStr(_)
NatStr(n) == IF n < 10 THEN Digit(n) ELSE NatStr(n \div 10) \o Digit(n % 10)

\* Python's str() on a cell value: a text is itself, a number its decimal form.
Str(cell) ==
    IF IsText(cell) THEN cell.str
    ELSE IF IsNone(cell) THEN "None"
    ELSE IF cell.int < 0 THEN "-" \o NatStr(-cell.int) ELSE NatStr(cell.int)

\* str(cell) if cell != "" else ""
CellStr(cell) == IF cell # Blank THEN Str(cell) ELSE ""

---------------------------------------------------------------------------
(* Helpers for Python built-ins *)

Max(a, b) == IF a >= b THEN a ELSE b

Min(a, b) == IF a <= b THEN a ELSE b

\* max((len(row) for row in data), default=0)
RECURSIVE MaxRowLenFrom(_, _, _)
MaxRowLenFrom(data, i, best) ==
    IF i > Len(data) THEN best
    ELSE MaxRowLenFrom(data, i + 1, Max(best, Len(data[i])))

MaxRowLen(data) == MaxRowLenFrom(data, 1, 0)

\* A plausible slip: [" "] * n, a space for the blank sentinel.
RECURSIVE Spaces(_)
Spaces(n) == IF n <= 0 THEN << >> ELSE <<Text(" ")>> \o Spaces(n - 1)

\* [""] * n  (the empty list when n <= 0)
RECURSIVE Blanks(_)
Blanks(n) == IF n <= 0 THEN << >> ELSE <<Blank>> \o Blanks(n - 1)

\* all(cell == "" for cell in row)
AllBlank(row) == \A i \in 1..Len(row) : row[i] = Blank

---------------------------------------------------------------------------
(* normalize_dimensions *)

\* A plausible slip: row = data[i], so that extend() grows the caller's row.
pad_row_in_place(data, i, cols) ==
    [row |-> data[i] \o Blanks(cols - Len(data[i])),
     source |-> data[i] \o Blanks(cols - Len(data[i]))]

\* row = list(data[i]); row.extend([""] * (cols - len(row))): the padded row,
\* and data[i] as the statement leaves it (list() copies, the copy is extended).
pad_row(data, i, cols) ==
    [row |-> data[i] \o Blanks(cols - Len(data[i])),
     source |-> data[i]]

RECURSIVE PadFrom(_, _, _, _, _)
PadFrom(data, rows, cols, i, result) ==
    IF i > rows THEN result
    ELSE LET row == IF i <= Len(data)
                    THEN pad_row(data, i, cols).row
                    ELSE Blanks(cols)
         IN  PadFrom(data, rows, cols, i + 1, Append(result, row))

\* The list passed as data, as pad_data leaves it to the caller.
RECURSIVE PadLeavesFrom(_, _, _, _, _)
PadLeavesFrom(data, rows, cols, i, left) ==
    IF i > Len(data) THEN left
    ELSE LET row == IF i <= rows THEN pad_row(data, i, cols).source ELSE data[i]
         IN  PadLeavesFrom(data, rows, cols, i + 1, Append(left, row))

pad_data_leaves(data, rows, cols) == PadLeavesFrom(data, rows, cols, 1, << >>)

\* A plausible slip: existing rows are copied but not extended.
RECURSIVE PadFromNoExtend(_, _, _, _, _)
PadFromNoExtend(data, rows, cols, i, result) ==
    IF i > rows THEN result
    ELSE LET row == IF i <= Len(data) THEN data[i] ELSE Blanks(cols)
         IN  PadFromNoExtend(data, rows, cols, i + 1, Append(result, row))

pad_data_no_extend(data, rows, cols) == PadFromNoExtend(data, rows, cols, 1, << >>)

\* A plausible slip: the blanks are put in front of the existing cells.
RECURSIVE PadFromPrepend(_, _, _, _, _)
PadFromPrepend(data, rows, cols, i, result) ==
    IF i > rows THEN result
    ELSE LET row == IF i <= Len(data)
                    THEN Blanks(cols - Len(data[i])) \o data[i]
                    ELSE Blanks(cols)
         IN  PadFromPrepend(data, rows, cols, i + 1, Append(result, row))

pad_data_prepend(data, rows, cols) == PadFromPrepend(data, rows, cols, 1, << >>)

\* A plausible slip: row.extend([""] * cols), the row's own length forgotten.
RECURSIVE PadFromOverExtend(_, _, _, _, _)
PadFromOverExtend(data, rows, cols, i, result) ==
    IF i > rows THEN result
    ELSE LET row == IF i <= Len(data)
                    THEN data[i] \o Blanks(cols)
                    ELSE Blanks(cols)
         IN  PadFromOverExtend(data, rows, cols, i + 1, Append(result, row))

pad_data_over_extend(data, rows, cols) == PadFromOverExtend(data, rows, cols, 1, << >>)

\* A plausible slip: the synthesized rows are [None] * cols.
RECURSIVE Nones(_)
Nones(n) == IF n <= 0 THEN << >> ELSE <<PyNone>> \o Nones(n - 1)

RECURSIVE PadFromNoneRows(_, _, _, _, _)
PadFromNoneRows(data, rows, cols, i, result) ==
    IF i > rows THEN result
    ELSE LET row == IF i <= Len(data)
                    THEN data[i] \o Blanks(cols - Len(data[i]))
                    ELSE Nones(cols)
         IN  PadFromNoneRows(data, rows, cols, i + 1, Append(result, row))

pad_data_none_rows(data, rows, cols) == PadFromNoneRows(data, rows, cols, 1, << >>)

pad_data(data, rows, cols) == PadFrom(data, rows, cols, 1, << >>)

\* A plausible slip: the column count is taken from the first grid alone.
normalize_dimensions_cols_of_first(d1, d2) ==
    LET max_rows == Max(Len(d1), Len(d2))
        max_cols == MaxRowLen(d1)
    IN  <<pad_data(d1, max_rows, max_cols), pad_data(d2, max_rows, max_cols)>>

\* A plausible slip: the grids are given one row at least.
normalize_dimensions_one_row_at_least(d1, d2) ==
    LET max_rows == Max(Max(Len(d1), Len(d2)), 1)
        max_cols == Max(MaxRowLen(d1), MaxRowLen(d2))
    IN  <<pad_data(d1, max_rows, max_cols), pad_data(d2, max_rows, max_cols)>>

normalize_dimensions(d1, d2) ==
    LET max_rows == Max(Len(d1), Len(d2))
        max_cols == Max(MaxRowLen(d1), MaxRowLen(d2))
    IN  <<pad_data(d1, max_rows, max_cols), pad_data(d2, max_rows, max_cols)>>

\* The two argument lists as normalize_dimensions leaves them to its caller.
normalize_dimensions_leaves(d1, d2) ==
    LET max_rows == Max(Len(d1), Len(d2))
        max_cols == Max(MaxRowLen(d1), MaxRowLen(d2))
    IN  <<pad_data_leaves(d1, max_rows, max_cols),
          pad_data_leaves(d2, max_rows, max_cols)>>

---------------------------------------------------------------------------
(* compare_sheets *)

\* A plausible slip: the modified branch does not set has_differences.
compare_cell_modified_unflagged(cell1, cell2, flag) ==
    LET cell1_str == CellStr(cell1)
        cell2_str == CellStr(cell2)
    IN  IF cell1_str = cell2_str
        THEN [cell |-> [type |-> "unchanged", value |-> cell1_str],
              flag |-> flag]
        ELSE IF cell1_str = "" /\ cell2_str # ""
        THEN [cell |-> [type |-> "added", value |-> cell2_str],
              flag |-> TRUE]
        ELSE IF cell1_str # "" /\ cell2_str = ""
        THEN [cell |-> [type |-> "deleted", value |-> cell1_str],
              flag |-> TRUE]
        ELSE [cell |-> [type |-> "modified", old_value |-> cell1_str,
                        new_value |-> cell2_str],
              flag |-> flag]

\* A plausible slip: the first two tests are made in the other order, the
\* "added" test reduced to cell1_str == "".
compare_cell_added_first(cell1, cell2, flag) ==
    LET cell1_str == CellStr(cell1)
        cell2_str == CellStr(cell2)
    IN  IF cell1_str = ""
        THEN [cell |-> [type |-> "added", value |-> cell2_str],
              flag |-> TRUE]
        ELSE IF cell1_str = cell2_str
        THEN [cell |-> [type |-> "unchanged", value |-> cell1_str],
              flag |-> flag]
        ELSE IF cell1_str # "" /\ cell2_str = ""
        THEN [cell |-> [type |-> "deleted", value |-> cell1_str],
              flag |-> TRUE]
        ELSE [cell |-> [type |-> "modified", old_value |-> cell1_str,
                        new_value |-> cell2_str],
              flag |-> TRUE]

\* A plausible slip: the equality test reads the raw first cell
\* (cell1 == cell2_str), which a number never passes.
compare_cell_raw_equality(cell1, cell2, flag) ==
    LET cell1_str == CellStr(cell1)
        cell2_str == CellStr(cell2)
    IN  IF cell1 = Text(cell2_str)
        THEN [cell |-> [type |-> "unchanged", value |-> cell1_str],
              flag |-> flag]
        ELSE IF cell1_str = "" /\ cell2_str # ""
        THEN [cell |-> [type |-> "added", value |-> cell2_str],
              flag |-> TRUE]
        ELSE IF cell1_str # "" /\ cell2_str = ""
        THEN [cell |-> [type |-> "deleted", value |-> cell1_str],
              flag |-> TRUE]
        ELSE [cell |-> [type |-> "modified", old_value |-> cell1_str,
                        new_value |-> cell2_str],
              flag |-> TRUE]

\* A plausible slip: the deleted branch stores the new (blank) string.
compare_cell_deleted_new_value(cell1, cell2, flag) ==
    LET cell1_str == CellStr(cell1)
        cell2_str == CellStr(cell2)
    IN  IF cell1_str = cell2_str
        THEN [cell |-> [type |-> "unchanged", value |-> cell1_str],
              flag |-> flag]
        ELSE IF cell1_str = "" /\ cell2_str # ""
        THEN [cell |-> [type |-> "added", value |-> cell2_str],
              flag |-> TRUE]
        ELSE IF cell1_str # "" /\ cell2_str = ""
        THEN [cell |-> [type |-> "deleted", value |-> cell2_str],
              flag |-> TRUE]
        ELSE [cell |-> [type |-> "modified", old_value |-> cell1_str,
                        new_value |-> cell2_str],
              flag |-> TRUE]

\* A plausible slip: the cells themselves are compared (cell1 == cell2), which
\* tells the number 5 from the text "5".
compare_cell_typed(cell1, cell2, flag) ==
    LET cell1_str == CellStr(cell1)
        cell2_str == CellStr(cell2)
    IN  IF cell1 = cell2
        THEN [cell |-> [type |-> "unchanged", value |-> cell1_str],
              flag |-> flag]
        ELSE IF cell1_str = "" /\ cell2_str # ""
        THEN [cell |-> [type |-> "added", value |-> cell2_str],
              flag |-> TRUE]
        ELSE IF cell1_str # "" /\ cell2_str = ""
        THEN [cell |-> [type |-> "deleted", value |-> cell1_str],
              flag |-> TRUE]
        ELSE [cell |-> [type |-> "modified", old_value |-> cell1_str,
                        new_value |-> cell2_str],
              flag |-> TRUE]

\* A plausible slip: the deleted branch is left out, a cell blanked in the
\* new grid falls through to the modified branch.
compare_cell_no_deleted_branch(cell1, cell2, flag) ==
    LET cell1_str == CellStr(cell1)
        cell2_str == CellStr(cell2)
    IN  IF cell1_str = cell2_str
        THEN [cell |-> [type |-> "unchanged", value |-> cell1_str],
              flag |-> flag]
        ELSE IF cell1_str = "" /\ cell2_str # ""
        THEN [cell |-> [type |-> "added", value |-> cell2_str],
              flag |-> TRUE]
        ELSE [cell |-> [type |-> "modified", old_value |-> cell1_str,
                        new_value |-> cell2_str],
              flag |-> TRUE]

\* A plausible slip: the modified branch stores the old string twice.
compare_cell_modified_old_twice(cell1, cell2, flag) ==
    LET cell1_str == CellStr(cell1)
        cell2_str == CellStr(cell2)
    IN  IF cell1_str = cell2_str
        THEN [cell |-> [type |-> "unchanged", value |-> cell1_str],
              flag |-> flag]
        ELSE IF cell1_str = "" /\ cell2_str # ""
        THEN [cell |-> [type |-> "added", value |-> cell2_str],
              flag |-> TRUE]
        ELSE IF cell1_str # "" /\ cell2_str = ""
        THEN [cell |-> [type |-> "deleted", value |-> cell1_str],
              flag |-> TRUE]
        ELSE [cell |-> [type |-> "modified", old_value |-> cell1_str,
                        new_value |-> cell1_str],
              flag |-> TRUE]

\* A plausible slip: the unchanged branch sets has_differences = False, the
\* flag follows the cell compared last.
compare_cell_resets_flag(cell1, cell2, flag) ==
    LET cell1_str == CellStr(cell1)
        cell2_str == CellStr(cell2)
    IN  IF cell1_str = cell2_str
        THEN [cell |-> [type |-> "unchanged", value |-> cell1_str],
              flag |-> FALSE]
        ELSE IF cell1_str = "" /\ cell2_str # ""
        THEN [cell |-> [type |-> "added", value |-> cell2_str],
              flag |-> TRUE]
        ELSE IF cell1_str # "" /\ cell2_str = ""
        THEN [cell |-> [type |-> "deleted", value |-> cell1_str],
              flag |-> TRUE]
        ELSE [cell |-> [type |-> "modified", old_value |-> cell1_str,
                        new_value |-> cell2_str],
              flag |-> TRUE]

\* The body of the inner loop: the cell appended to diff_row and the value
\* of has_differences after it.
compare_cell(cell1, cell2, flag) ==
    LET cell1_str == CellStr(cell1)
        cell2_str == CellStr(cell2)
    IN  IF cell1_str = cell2_str
        THEN [cell |-> [type |-> "unchanged", value |-> cell1_str],
              flag |-> flag]
        ELSE IF cell1_str = "" /\ cell2_str # ""
        THEN [cell |-> [type |-> "added", value |-> cell2_str],
              flag |-> TRUE]
        ELSE IF cell1_str # "" /\ cell2_str = ""
        THEN [cell |-> [type |-> "deleted", value |-> cell1_str],
              flag |-> TRUE]
        ELSE [cell |-> [type |-> "modified", old_value |-> cell1_str,
                        new_value |-> cell2_str],
              flag |-> TRUE]

\* A plausible slip: a cell counts as kept when its string occurs anywhere in
\* the new row, an attempt at re-aligning shifted columns.
RECURSIVE CompareCellsAnywhere(_, _, _, _, _)
CompareCellsAnywhere(row1, row2, col, diff_row, flag) ==
    IF col > Min(Len(row1), Len(row2))
    THEN [cells |-> diff_row, flag |-> flag]
    ELSE LET found == \E k \in 1..Len(row2) :
                          CellStr(row2[k]) = CellStr(row1[col])
             step == IF found
                     THEN compare_cell(row1[col], row1[col], flag)
                     ELSE compare_cell(row1[col], row2[col], flag)
         IN  CompareCellsAnywhere(row1, row2, col + 1,
                                  Append(diff_row, step.cell), step.flag)

\* for col_idx, (cell1, cell2) in enumerate(zip(row1, row2))
RECURSIVE CompareCells(_, _, _, _, _)
CompareCells(row1, row2, col, diff_row, flag) ==
    IF col > Min(Len(row1), Len(row2))
    THEN [cells |-> diff_row, flag |-> flag]
    ELSE LET step == compare_cell(row1[col], row2[col], flag)
         IN  CompareCells(row1, row2, col + 1,
                          Append(diff_row, step.cell), step.flag)

\* A plausible slip: the second operand of each test is forgotten.
row_type_of_one_sided(row1, row2) ==
    LET row1_empty == AllBlank(row1)
        row2_empty == AllBlank(row2)
    IN  IF row1_empty THEN "added_row"
        ELSE IF row2_empty THEN "deleted_row"
        ELSE "unchanged"

\* A plausible slip: "or" for "and" in the first test.
row_type_of_or(row1, row2) ==
    LET row1_empty == AllBlank(row1)
        row2_empty == AllBlank(row2)
    IN  IF row1_empty \/ ~row2_empty THEN "added_row"
        ELSE IF ~row1_empty /\ row2_empty THEN "deleted_row"
        ELSE "unchanged"

\* A plausible slip: the elif branch is left out, no row is a deleted_row.
row_type_of_never_deleted(row1, row2) ==
    LET row1_empty == AllBlank(row1)
        row2_empty == AllBlank(row2)
    IN  IF row1_empty /\ ~row2_empty THEN "added_row"
        ELSE "unchanged"

\* Check if entire row was added or deleted
row_type_of(row1, row2) ==
    LET row1_empty == AllBlank(row1)
        row2_empty == AllBlank(row2)
    IN  IF row1_empty /\ ~row2_empty THEN "added_row"
        ELSE IF ~row1_empty /\ row2_empty THEN "deleted_row"
        ELSE "unchanged"

\* for row_idx, (row1, row2) in enumerate(zip(data1, data2))
RECURSIVE CompareRows(_, _, _, _, _)
CompareRows(d1, d2, row, grid, flag) ==
    IF row > Min(Len(d1), Len(d2))
    THEN [diff_grid |-> grid, has_differences |-> flag]
    ELSE LET scan == CompareCells(d1[row], d2[row], 1, << >>, flag)
             diff_row == [row_type |-> row_type_of(d1[row], d2[row]),
                          cells |-> scan.cells]
         IN  CompareRows(d1, d2, row + 1, Append(grid, diff_row), scan.flag)

compare_sheets(d1, d2) ==
    LET n == normalize_dimensions(d1, d2)
    IN  CompareRows(n[1], n[2], 1, << >>, FALSE)

---------------------------------------------------------------------------
(* create_single_sheet_diff *)

\* A plausible slip: blank cells are left unmarked.
single_cell_skips_blank(cell, dtype) ==
    IF cell = Blank THEN [type |-> "unchanged", value |-> ""]
    ELSE [type |-> dtype, value |-> CellStr(cell)]

\* The body of the inner loop: the cell appended to diff_row.
single_cell(cell, dtype) == [type |-> dtype, value |-> CellStr(cell)]

RECURSIVE SingleCells(_, _, _, _)
SingleCells(row_data, dtype, col, diff_row) ==
    IF col > Len(row_data) THEN diff_row
    ELSE SingleCells(row_data, dtype, col + 1,
                     Append(diff_row, single_cell(row_data[col], dtype)))

single_row_type(dtype) == IF dtype = "added" THEN "added_row" ELSE "deleted_row"

RECURSIVE SingleRows(_, _, _, _)
SingleRows(data, dtype, row, grid) ==
    IF row > Len(data) THEN grid
    ELSE SingleRows(data, dtype, row + 1,
                    Append(grid, [row_type |-> single_row_type(dtype),
                                  cells |-> SingleCells(data[row], dtype, 1, << >>)]))

\* A plausible slip: the grid is padded to a rectangle first, as the two-sided
\* diff does.
create_single_sheet_diff_padded(data, dtype) ==
    SingleRows(pad_data(data, Len(data), MaxRowLen(data)), dtype, 1, << >>)

create_single_sheet_diff(data, dtype) == SingleRows(data, dtype, 1, << >>)

---------------------------------------------------------------------------
(* Inputs: every grid of at most MaxRows rows; the two grids of a pair      *)
(* hold at most MaxCells cells together.                                   *)

RECURSIVE RowsOfLen(_, _)
RowsOfLen(values, n) ==
    IF n = 0 THEN {<< >>}
    ELSE {Append(r, c) : r \in RowsOfLen(values, n - 1), c \in values}

RowsUpTo(values, n) == UNION {RowsOfLen(values, k) : k \in 0..n}

RECURSIVE GridsWithin(_, _, _)
GridsWithin(values, rows, cells) ==
    IF rows = 0 THEN {<< >>}
    ELSE {<< >>} \cup
         UNION {{<<r>> \o g : g \in GridsWithin(values, rows - 1, cells - Len(r))}
                : r \in RowsUpTo(values, cells)}

RECURSIVE CellCountFrom(_, _)
CellCountFrom(data, i) ==
    IF i > Len(data) THEN 0 ELSE Len(data[i]) + CellCountFrom(data, i + 1)

CellCount(data) == CellCountFrom(data, 1)

---------------------------------------------------------------------------
(* The state machine *)

None == "none"

\* The variables of a run, not in use.
EngineIdle ==
    /\ data1 = None /\ data2 = None
    /\ norm1 = None /\ norm2 = None
    /\ again1 = None /\ again2 = None
    /\ diff_grid = None /\ has_differences = None
    /\ rev_grid = None /\ rev_differences = None
    /\ diff_type = None

WorkbookIdle ==
    /\ wb1 = None /\ wb2 = None
    /\ enum = None /\ enum2 = None
    /\ comparisons = None /\ comparisons2 = None
    /\ pending = None /\ finished = None /\ parallel = None

SheetIdle == worksheet = None /\ extracted = None

CellIdle ==
    /\ old_cell = None /\ new_cell = None /\ test_order = None
    /\ cell_result = None /\ ordered_result = None

ScanIdle == row_idx = None /\ col_idx = None /\ scan_row = None

ColumnIdle == column = None /\ letter_idx = None /\ letters = None

ExtraIdle == SheetIdle /\ CellIdle /\ ScanIdle /\ ColumnIdle

Init ==
    /\ data1 \in GridsWithin(CellValues, MaxRows, MaxCells)
    /\ data2 \in GridsWithin(CellValues, MaxRows, MaxCells - CellCount(data1))
    /\ pc = "start"
    /\ norm1 = None /\ norm2 = None
    /\ again1 = None /\ again2 = None
    /\ diff_grid = None /\ has_differences = None
    /\ rev_grid = None /\ rev_differences = None
    /\ diff_type = None
    /\ wb1 = None /\ wb2 = None
    /\ enum = None /\ enum2 = None
    /\ comparisons = None /\ comparisons2 = None
    /\ pending = None /\ finished = None /\ parallel = None
    /\ ExtraIdle

\* data1, data2 = normalize_dimensions(data1, data2)
Normalize ==
    /\ pc = "start"
    /\ LET n == normalize_dimensions(data1, data2)
           left == normalize_dimensions_leaves(data1, data2)
       IN  /\ norm1' = n[1] /\ norm2' = n[2]
           /\ data1' = left[1] /\ data2' = left[2]
    /\ pc' = "normalized"
    /\ UNCHANGED <<again1, again2, diff_grid, has_differences,
                   rev_grid, rev_differences, diff_type>>
    /\ UNCHANGED <<wbvars, extravars>>

\* normalize_dimensions applied to the pair it returned
Renormalize ==
    /\ pc = "normalized"
    /\ LET n == normalize_dimensions(norm1, norm2)
           left == normalize_dimensions_leaves(norm1, norm2)
       IN  /\ again1' = n[1] /\ again2' = n[2]
           /\ norm1' = left[1] /\ norm2' = left[2]
    /\ pc' = "renormalized"
    /\ UNCHANGED <<data1, data2, diff_grid, has_differences,
                   rev_grid, rev_differences, diff_type>>
    /\ UNCHANGED <<wbvars, extravars>>

\* diff_grid, has_differences = compare_sheets(data1, data2)
Compare ==
    /\ pc = "start"
    /\ LET r == compare_sheets(data1, data2)
           left == normalize_dimensions_leaves(data1, data2)
       IN  /\ diff_grid' = r.diff_grid /\ has_differences' = r.has_differences
           /\ data1' = left[1] /\ data2' = left[2]
    /\ pc' = "compared"
    /\ UNCHANGED <<norm1, norm2, again1, again2,
                   rev_grid, rev_differences, diff_type>>
    /\ UNCHANGED <<wbvars, extravars>>

\* compare_sheets with the two workbooks exchanged
CompareReversed ==
    /\ pc = "compared"
    /\ LET r == compare_sheets(data2, data1)
           left == normalize_dimensions_leaves(data2, data1)
       IN  /\ rev_grid' = r.diff_grid /\ rev_differences' = r.has_differences
           /\ data2' = left[1] /\ data1' = left[2]
    /\ pc' = "reversed"
    /\ UNCHANGED <<norm1, norm2, again1, again2,
                   diff_grid, has_differences, diff_type>>
    /\ UNCHANGED <<wbvars, extravars>>

\* diff_grid = create_single_sheet_diff(data, "deleted") for a sheet of the old
\* workbook only; the function reads data and assigns nothing in it
SingleDeleted ==
    /\ pc = "start"
    /\ diff_type' = "deleted"
    /\ diff_grid' = create_single_sheet_diff(data1, "deleted")
    /\ pc' = "single"
    /\ UNCHANGED <<data1, data2, norm1, norm2, again1, again2,
                   has_differences, rev_grid, rev_differences>>
    /\ UNCHANGED <<wbvars, extravars>>

\* diff_grid = create_single_sheet_diff(data, "added") for a sheet of the new
\* workbook only; the function reads data and assigns nothing in it
SingleAdded ==
    /\ pc = "start"
    /\ diff_type' = "added"
    /\ diff_grid' = create_single_sheet_diff(data2, "added")
    /\ pc' = "single"
    /\ UNCHANGED <<data1, data2, norm1, norm2, again1, again2,
                   has_differences, rev_grid, rev_differences>>
    /\ UNCHANGED <<wbvars, extravars>>

Next ==
    \/ Normalize
    \/ Renormalize
    \/ Compare
    \/ CompareReversed
    \/ SingleDeleted
    \/ SingleAdded

Spec == Init /\ [][Next]_vars

\* The same calls on grids that mix texts and numbers of one string form.
InitTyped ==
    /\ data1 \in GridsWithin(TypedValues, MaxRows, MaxTypedCells)
    /\ data2 \in GridsWithin(TypedValues, MaxRows, MaxTypedCells - CellCount(data1))
    /\ pc = "start"
    /\ norm1 = None /\ norm2 = None
    /\ again1 = None /\ again2 = None
    /\ diff_grid = None /\ has_differences = None
    /\ rev_grid = None /\ rev_differences = None
    /\ diff_type = None
    /\ wb1 = None /\ wb2 = None
    /\ enum = None /\ enum2 = None
    /\ comparisons = None /\ comparisons2 = None
    /\ pending = None /\ finished = None /\ parallel = None
    /\ ExtraIdle

SpecTyped == InitTyped /\ [][Next]_vars

---------------------------------------------------------------------------
(* get_sheet_data *)

\* value = cell.value; if value is None: value = ""
cell_value(value) == IF value = PyNone THEN Blank ELSE value

RECURSIVE ReadCells(_, _, _)
ReadCells(row, i, row_data) ==
    IF i > Len(row) THEN row_data
    ELSE ReadCells(row, i + 1, Append(row_data, cell_value(row[i])))

\* for row in sheet.iter_rows(): ... data.append(row_data)
RECURSIVE ReadRows(_, _, _)
ReadRows(sheet, i, data) ==
    IF i > Len(sheet) THEN data
    ELSE ReadRows(sheet, i + 1, Append(data, ReadCells(sheet[i], 1, << >>)))

\* while data and all(cell == "" for cell in data[-1]): data.pop()
RECURSIVE PopTrailingRows(_)
PopTrailingRows(data) ==
    IF data # << >> /\ AllBlank(data[Len(data)])
    THEN PopTrailingRows(SubSeq(data, 1, Len(data) - 1))
    ELSE data

\* A plausible slip: the row is walked from the left, range(len(row)), so
\* that the first non-blank cell ends the search.
RECURSIVE FirstFilledFrom(_, _)
FirstFilledFrom(row, k) ==
    IF k > Len(row) THEN 0
    ELSE IF row[k] # Blank THEN k
    ELSE FirstFilledFrom(row, k + 1)

LastFilledFromLeft(row, i) == FirstFilledFrom(row, 1)

\* for i in range(len(row) - 1, -1, -1): if row[i] != "": ... i + 1 ... break
RECURSIVE LastFilled(_, _)
LastFilled(row, i) ==
    IF i < 1 THEN 0
    ELSE IF row[i] # Blank THEN i
    ELSE LastFilled(row, i - 1)

RECURSIVE MaxColFrom(_, _, _)
MaxColFrom(data, r, max_col) ==
    IF r > Len(data) THEN max_col
    ELSE MaxColFrom(data, r + 1, Max(max_col, LastFilled(data[r], Len(data[r]))))

\* row[:max_col]
Slice(row, n) == SubSeq(row, 1, Min(n, Len(row)))

RECURSIVE SliceRows(_, _, _, _)
SliceRows(data, max_col, r, result) ==
    IF r > Len(data) THEN result
    ELSE SliceRows(data, max_col, r + 1, Append(result, Slice(data[r], max_col)))

get_sheet_data(sheet) ==
    LET data == PopTrailingRows(ReadRows(sheet, 1, << >>))
    IN  IF data # << >>
        THEN SliceRows(data, MaxColFrom(data, 1, 0), 1, << >>)
        ELSE data

---------------------------------------------------------------------------
(* main: the comparison of two workbooks *)

\* Sheet names are strings, written as their sequences of code points:
\* "S1", "S10" and "S2".
SheetNames == {<<83, 49>>, <<83, 49, 48>>, <<83, 50>>}

\* A plausible slip: shorter names first, "natural" order ("S2" before "S10").
NameLessShorterFirst(a, b) ==
    \/ Len(a) < Len(b)
    \/ /\ Len(a) = Len(b)
       /\ \E k \in 1..Len(a) :
              /\ \A m \in 1..(k - 1) : a[m] = b[m]
              /\ a[k] < b[k]

\* Python's < on two strings: the first differing code point decides, a
\* proper prefix comes first.
NameLess(a, b) ==
    \E k \in 1..(Min(Len(a), Len(b)) + 1) :
        /\ \A m \in 1..(k - 1) : a[m] = b[m]
        /\ \/ k > Len(a) /\ k <= Len(b)
           \/ k <= Len(a) /\ k <= Len(b) /\ a[k] < b[k]

\* sorted(): the names of the enumeration put in ascending order.
RECURSIVE InsertName(_, _)
InsertName(name, seq) ==
    IF seq = << >> THEN <<name>>
    ELSE IF NameLess(name, Head(seq)) THEN <<name>> \o seq
    ELSE <<Head(seq)>> \o InsertName(name, Tail(seq))

RECURSIVE SortFrom(_, _, _)
SortFrom(names, i, result) ==
    IF i > Len(names) THEN result
    ELSE SortFrom(names, i + 1, InsertName(names[i], result))

\* A plausible slip: the loop runs over all_sheets as enumerated.
sorted_names_as_enumerated(names) == names

sorted_names(names) == SortFrom(names, 1, << >>)

\* A plausible slip: the two grids are handed over in the other order.
main_body_swapped(list, sheet_name, w1, w2) ==
    LET sheets1 == DOMAIN w1
        sheets2 == DOMAIN w2
    IN  IF sheet_name \in sheets1 /\ sheet_name \in sheets2
        THEN LET r == compare_sheets(get_sheet_data(w2[sheet_name]),
                                     get_sheet_data(w1[sheet_name]))
             IN  Append(list, [name |-> sheet_name,
                               status |-> "compared",
                               has_differences |-> r.has_differences,
                               diff_grid |-> r.diff_grid])
        ELSE IF sheet_name \in sheets1
        THEN Append(list, [name |-> sheet_name,
                           status |-> "only_in_old",
                           has_differences |-> TRUE,
                           diff_grid |-> create_single_sheet_diff(
                               get_sheet_data(w1[sheet_name]), "deleted")])
        ELSE Append(list, [name |-> sheet_name,
                           status |-> "only_in_new",
                           has_differences |-> TRUE,
                           diff_grid |-> create_single_sheet_diff(
                               get_sheet_data(w2[sheet_name]), "added")])

\* A plausible slip: a one-sided sheet is flagged by bool(diff_grid).
main_body_flag_from_grid(list, sheet_name, w1, w2) ==
    LET sheets1 == DOMAIN w1
        sheets2 == DOMAIN w2
    IN  IF sheet_name \in sheets1 /\ sheet_name \in sheets2
        THEN LET r == compare_sheets(get_sheet_data(w1[sheet_name]),
                                     get_sheet_data(w2[sheet_name]))
             IN  Append(list, [name |-> sheet_name,
                               status |-> "compared",
                               has_differences |-> r.has_differences,
                               diff_grid |-> r.diff_grid])
        ELSE IF sheet_name \in sheets1
        THEN LET grid == create_single_sheet_diff(
                             get_sheet_data(w1[sheet_name]), "deleted")
             IN  Append(list, [name |-> sheet_name,
                               status |-> "only_in_old",
                               has_differences |-> (grid # << >>),
                               diff_grid |-> grid])
        ELSE LET grid == create_single_sheet_diff(
                             get_sheet_data(w2[sheet_name]), "added")
             IN  Append(list, [name |-> sheet_name,
                               status |-> "only_in_new",
                               has_differences |-> (grid # << >>),
                               diff_grid |-> grid])

\* A plausible slip: has_differences is not reset between sheets, the flag of
\* the entry appended last carries over.
main_body_flag_carried(list, sheet_name, w1, w2) ==
    LET sheets1 == DOMAIN w1
        sheets2 == DOMAIN w2
        carried == list # << >> /\ list[Len(list)].has_differences
    IN  IF sheet_name \in sheets1 /\ sheet_name \in sheets2
        THEN LET r == compare_sheets(get_sheet_data(w1[sheet_name]),
                                     get_sheet_data(w2[sheet_name]))
             IN  Append(list, [name |-> sheet_name,
                               status |-> "compared",
                               has_differences |-> (r.has_differences \/ carried),
                               diff_grid |-> r.diff_grid])
        ELSE IF sheet_name \in sheets1
        THEN Append(list, [name |-> sheet_name,
                           status |-> "only_in_old",
                           has_differences |-> TRUE,
                           diff_grid |-> create_single_sheet_diff(
                               get_sheet_data(w1[sheet_name]), "deleted")])
        ELSE Append(list, [name |-> sheet_name,
                           status |-> "only_in_new",
                           has_differences |-> TRUE,
                           diff_grid |-> create_single_sheet_diff(
                               get_sheet_data(w2[sheet_name]), "added")])

\* The body of the loop of main for sheet_name: the list comparisons after
\* the append.
main_body(list, sheet_name, w1, w2) ==
    LET sheets1 == DOMAIN w1
        sheets2 == DOMAIN w2
    IN  IF sheet_name \in sheets1 /\ sheet_name \in sheets2
        THEN LET r == compare_sheets(get_sheet_data(w1[sheet_name]),
                                     get_sheet_data(w2[sheet_name]))
             IN  Append(list, [name |-> sheet_name,
                               status |-> "compared",
                               has_differences |-> r.has_differences,
                               diff_grid |-> r.diff_grid])
        ELSE IF sheet_name \in sheets1
        THEN Append(list, [name |-> sheet_name,
                           status |-> "only_in_old",
                           has_differences |-> TRUE,
                           diff_grid |-> create_single_sheet_diff(
                               get_sheet_data(w1[sheet_name]), "deleted")])
        ELSE Append(list, [name |-> sheet_name,
                           status |-> "only_in_new",
                           has_differences |-> TRUE,
                           diff_grid |-> create_single_sheet_diff(
                               get_sheet_data(w2[sheet_name]), "added")])

\* for sheet_name in sorted(all_sheets)
RECURSIVE MainLoop(_, _, _, _, _)
MainLoop(names, i, list, w1, w2) ==
    IF i > Len(names) THEN list
    ELSE MainLoop(names, i + 1, main_body(list, names[i], w1, w2), w1, w2)

\* comparisons as main builds it when all_sheets is enumerated in the order
\* all_sheets_order.
main_comparisons(w1, w2, all_sheets_order) ==
    MainLoop(sorted_names(all_sheets_order), 1, << >>, w1, w2)

---------------------------------------------------------------------------
(* Workbooks: sheets as iter_rows yields them, a rectangle of cell values   *)
(* (None where a cell holds nothing) or no row at all for an empty sheet;   *)
(* the sheets of both workbooks hold at most MaxBookCells cells together.   *)

RawValues == {PyNone, Text("a")}

RECURSIVE RectanglesOf(_, _)
RectanglesOf(rows, cols) ==
    IF rows = 0 THEN {<< >>}
    ELSE {<<r>> \o g : r \in RowsOfLen(RawValues, cols),
                       g \in RectanglesOf(rows - 1, cols)}

RawSheets(cells) ==
    {<< >>} \cup
    UNION {RectanglesOf(shape[1], shape[2]) :
               shape \in {sh \in (1..cells) \X (1..cells) : sh[1] * sh[2] <= cells}}

Absent == [present |-> FALSE]

SheetOptions(cells) ==
    {Absent} \cup {[present |-> TRUE, sheet |-> sh] : sh \in RawSheets(cells)}

OptionCells(o) == IF o.present THEN CellCount(o.sheet) ELSE 0

WithSheet(wb, name, o) == IF o.present THEN (name :> o.sheet) @@ wb ELSE wb

RECURSIVE BooksOver(_, _)
BooksOver(names, cells) ==
    IF names = {} THEN {[old |-> << >>, new |-> << >>]}
    ELSE LET n == CHOOSE x \in names : TRUE
         IN  UNION {UNION {{[old |-> WithSheet(rest.old, n, a),
                             new |-> WithSheet(rest.new, n, b)] :
                               rest \in BooksOver(names \ {n},
                                   cells - OptionCells(a) - OptionCells(b))} :
                           b \in SheetOptions(cells - OptionCells(a))} :
                    a \in SheetOptions(cells)}

\* The orders in which a set can be enumerated.
Enumerations(S) ==
    {f \in [1..Cardinality(S) -> S] : \A i, j \in 1..Cardinality(S) :
                                            f[i] = f[j] => i = j}

\* wb1 = load_workbook(file1); wb2 = load_workbook(file2): a workbook has at
\* least one sheet.
InitWorkbook ==
    /\ \E books \in BooksOver(SheetNames, MaxBookCells) :
           /\ DOMAIN books.old # {}
           /\ DOMAIN books.new # {}
           /\ wb1 = books.old
           /\ wb2 = books.new
    /\ pc = "loaded"
    /\ data1 = None /\ data2 = None
    /\ norm1 = None /\ norm2 = None
    /\ again1 = None /\ again2 = None
    /\ diff_grid = None /\ has_differences = None
    /\ rev_grid = None /\ rev_differences = None
    /\ diff_type = None
    /\ enum = None /\ enum2 = None
    /\ comparisons = None /\ comparisons2 = None
    /\ pending = None /\ finished = None /\ parallel = None
    /\ ExtraIdle

\* The loop of main, all_sheets enumerated in some order.
MainRun ==
    /\ pc = "loaded"
    /\ \E order \in Enumerations(DOMAIN wb1 \cup DOMAIN wb2) :
           /\ enum' = order
           /\ comparisons' = main_comparisons(wb1, wb2, order)
    /\ pc' = "done"
    /\ UNCHANGED <<wb1, wb2, enum2, comparisons2, pending, finished, parallel>>
    /\ UNCHANGED <<enginevars, extravars>>

\* main run again on the same workbooks, all_sheets enumerated in some order.
MainAgain ==
    /\ pc = "done"
    /\ \E order \in Enumerations(DOMAIN wb1 \cup DOMAIN wb2) :
           /\ enum2' = order
           /\ comparisons2' = main_comparisons(wb1, wb2, order)
    /\ pc' = "done2"
    /\ UNCHANGED <<wb1, wb2, enum, comparisons, pending, finished, parallel>>
    /\ UNCHANGED <<enginevars, extravars>>

\* One task per sheet name is created.
StartTasks ==
    /\ pc = "loaded"
    /\ pending' = DOMAIN wb1 \cup DOMAIN wb2
    /\ finished' = << >>
    /\ pc' = "tasks"
    /\ UNCHANGED <<wb1, wb2, enum, enum2, comparisons, comparisons2, parallel>>
    /\ UNCHANGED <<enginevars, extravars>>

\* The task of some sheet name runs the body of the loop.
RunTask ==
    /\ pc = "tasks"
    /\ \E sheet_name \in pending :
           /\ finished' = main_body(finished, sheet_name, wb1, wb2)
           /\ pending' = pending \ {sheet_name}
    /\ UNCHANGED <<pc, wb1, wb2, enum, enum2, comparisons, comparisons2, parallel>>
    /\ UNCHANGED <<enginevars, extravars>>

\* The entries ordered by name.
RECURSIVE InsertEntry(_, _)
InsertEntry(e, seq) ==
    IF seq = << >> THEN <<e>>
    ELSE IF NameLess(e.name, Head(seq).name) THEN <<e>> \o seq
    ELSE <<Head(seq)>> \o InsertEntry(e, Tail(seq))

RECURSIVE SortEntriesFrom(_, _, _)
SortEntriesFrom(entries, i, result) ==
    IF i > Len(entries) THEN result
    ELSE SortEntriesFrom(entries, i + 1, InsertEntry(entries[i], result))

\* All tasks are done: their entries are put in the order of the names.
Collect ==
    /\ pc = "tasks"
    /\ pending = {}
    /\ parallel' = SortEntriesFrom(finished, 1, << >>)
    /\ pc' = "collected"
    /\ UNCHANGED <<wb1, wb2, enum, enum2, comparisons, comparisons2, pending,
                   finished>>
    /\ UNCHANGED <<enginevars, extravars>>

NextWorkbook ==
    \/ MainRun
    \/ MainAgain
    \/ StartTasks
    \/ RunTask
    \/ Collect

SpecWorkbook == InitWorkbook /\ [][NextWorkbook]_vars

---------------------------------------------------------------------------
(* One sheet read by get_sheet_data: a rectangle of cell values as          *)
(* iter_rows yields it, of at most MaxSheetCells cells.                     *)

\* What a cell of a sheet can hold: nothing, "", a text, the number 0.
SheetValues == {PyNone, Blank, Text("a"), Number(0)}

RECURSIVE RectanglesOver(_, _, _)
RectanglesOver(values, rows, cols) ==
    IF rows = 0 THEN {<< >>}
    ELSE {<<r>> \o g : r \in RowsOfLen(values, cols),
                       g \in RectanglesOver(values, rows - 1, cols)}

SheetsWithin(values, cells) ==
    {<< >>} \cup
    UNION {RectanglesOver(values, shape[1], shape[2]) :
               shape \in {sh \in (1..cells) \X (1..cells) : sh[1] * sh[2] <= cells}}

InitSheet ==
    /\ worksheet \in SheetsWithin(SheetValues, MaxSheetCells)
    /\ extracted = None
    /\ pc = "sheet"
    /\ EngineIdle /\ WorkbookIdle /\ CellIdle /\ ScanIdle /\ ColumnIdle

\* data = get_sheet_data(sheet); the function reads cell.value and assigns
\* nothing in the sheet
GetSheetData ==
    /\ pc = "sheet"
    /\ extracted' = get_sheet_data(worksheet)
    /\ pc' = "extracted"
    /\ UNCHANGED <<worksheet, enginevars, wbvars>>
    /\ UNCHANGED <<old_cell, new_cell, test_order, cell_result, ordered_result,
                   row_idx, col_idx, scan_row, column, letter_idx, letters>>

NextSheet == GetSheetData

SpecSheet == InitSheet /\ [][NextSheet]_vars

---------------------------------------------------------------------------
(* compare_sheets step by step: the two loops, one step per cell.  norm1    *)
(* and norm2 are the local data1 and data2 after line 60, row_idx and       *)
(* col_idx count from 1.                                                    *)

InitScan ==
    /\ data1 \in GridsWithin(CellValues, MaxRows, MaxScanCells)
    /\ data2 \in GridsWithin(CellValues, MaxRows, MaxScanCells - CellCount(data1))
    /\ pc = "called"
    /\ norm1 = None /\ norm2 = None
    /\ again1 = None /\ again2 = None
    /\ diff_grid = None /\ has_differences = None
    /\ rev_grid = None /\ rev_differences = None
    /\ diff_type = None
    /\ WorkbookIdle /\ SheetIdle /\ CellIdle /\ ScanIdle /\ ColumnIdle

scanrest == <<again1, again2, rev_grid, rev_differences, diff_type, wbvars,
              worksheet, extracted, old_cell, new_cell, test_order, cell_result,
              ordered_result, column, letter_idx, letters>>

\* data1, data2 = normalize_dimensions(data1, data2); diff_grid = [];
\* has_differences = False
ScanBegin ==
    /\ pc = "called"
    /\ LET n == normalize_dimensions(data1, data2)
           left == normalize_dimensions_leaves(data1, data2)
       IN  /\ norm1' = n[1] /\ norm2' = n[2]
           /\ data1' = left[1] /\ data2' = left[2]
    /\ diff_grid' = << >>
    /\ has_differences' = FALSE
    /\ row_idx' = 1
    /\ pc' = "rows"
    /\ UNCHANGED <<col_idx, scan_row, scanrest>>

\* for row_idx, (row1, row2) in enumerate(zip(data1, data2)): diff_row = []
RowBegin ==
    /\ pc = "rows"
    /\ row_idx <= Min(Len(norm1), Len(norm2))
    /\ scan_row' = << >>
    /\ col_idx' = 1
    /\ pc' = "cells"
    /\ UNCHANGED <<data1, data2, norm1, norm2, diff_grid, has_differences,
                   row_idx, scanrest>>

\* for col_idx, (cell1, cell2) in enumerate(zip(row1, row2)): one cell
CellStep ==
    /\ pc = "cells"
    /\ col_idx <= Min(Len(norm1[row_idx]), Len(norm2[row_idx]))
    /\ LET step == compare_cell(norm1[row_idx][col_idx], norm2[row_idx][col_idx],
                                has_differences)
       IN  /\ scan_row' = Append(scan_row, step.cell)
           /\ has_differences' = step.flag
    /\ col_idx' = col_idx + 1
    /\ UNCHANGED <<data1, data2, norm1, norm2, diff_grid, row_idx, pc, scanrest>>

\* The row is exhausted: row_type is set and the row appended to diff_grid.
RowEnd ==
    /\ pc = "cells"
    /\ col_idx > Min(Len(norm1[row_idx]), Len(norm2[row_idx]))
    /\ diff_grid' = Append(diff_grid,
                           [row_type |-> row_type_of(norm1[row_idx], norm2[row_idx]),
                            cells |-> scan_row])
    /\ row_idx' = row_idx + 1
    /\ pc' = "rows"
    /\ UNCHANGED <<data1, data2, norm1, norm2, has_differences, col_idx,
                   scan_row, scanrest>>

\* return diff_grid, has_differences
ScanReturn ==
    /\ pc = "rows"
    /\ row_idx > Min(Len(norm1), Len(norm2))
    /\ pc' = "returned"
    /\ UNCHANGED <<data1, data2, norm1, norm2, diff_grid, has_differences,
                   row_idx, col_idx, scan_row, scanrest>>

NextScan ==
    \/ ScanBegin
    \/ RowBegin
    \/ CellStep
    \/ RowEnd
    \/ ScanReturn

SpecScan == InitScan /\ [][NextScan]_vars

---------------------------------------------------------------------------
(* The classification of one pair of cells, its tests taken one by one.     *)

\* A plausible slip: the second operand of the "added" test is forgotten.
cell_tests_loose(cell1_str, cell2_str) ==
    [unchanged |-> cell1_str = cell2_str,
     added |-> cell1_str = "",
     deleted |-> cell1_str # "" /\ cell2_str = ""]

\* The conditions of the if and of the two elifs of the inner loop body.
cell_tests(cell1_str, cell2_str) ==
    [unchanged |-> cell1_str = cell2_str,
     added |-> cell1_str = "" /\ cell2_str # "",
     deleted |-> cell1_str # "" /\ cell2_str = ""]

\* What the branch does: the cell appended and has_differences after it.
cell_branch(branch, cell1_str, cell2_str, flag) ==
    CASE branch = "unchanged" ->
            [cell |-> [type |-> "unchanged", value |-> cell1_str], flag |-> flag]
      [] branch = "added" ->
            [cell |-> [type |-> "added", value |-> cell2_str], flag |-> TRUE]
      [] branch = "deleted" ->
            [cell |-> [type |-> "deleted", value |-> cell1_str], flag |-> TRUE]
      [] branch = "modified" ->
            [cell |-> [type |-> "modified", old_value |-> cell1_str,
                       new_value |-> cell2_str],
             flag |-> TRUE]

\* The if / elif chain with its three tests written in the order given; the
\* else branch stays last.
RECURSIVE ChainFrom(_, _, _, _, _)
ChainFrom(order, k, cell1_str, cell2_str, flag) ==
    IF k > Len(order) THEN cell_branch("modified", cell1_str, cell2_str, flag)
    ELSE IF cell_tests(cell1_str, cell2_str)[order[k]]
    THEN cell_branch(order[k], cell1_str, cell2_str, flag)
    ELSE ChainFrom(order, k + 1, cell1_str, cell2_str, flag)

compare_cell_ordered(order, cell1, cell2, flag) ==
    ChainFrom(order, 1, CellStr(cell1), CellStr(cell2), flag)

TestNames == {"unchanged", "added", "deleted"}

TestOrders ==
    {o \in [1..3 -> TestNames] : \A i, j \in 1..3 : o[i] = o[j] => i = j}

\* The cells of a pair: blank, texts, numbers, a text and a number of one
\* string form, a text of white space.
PairValues == {Blank, Text("a"), Text("5"), Number(5), Text(" "), Number(0)}

InitCell ==
    /\ old_cell \in PairValues
    /\ new_cell \in PairValues
    /\ test_order \in TestOrders
    /\ has_differences \in BOOLEAN
    /\ cell_result = None /\ ordered_result = None
    /\ pc = "pair"
    /\ data1 = None /\ data2 = None
    /\ norm1 = None /\ norm2 = None
    /\ again1 = None /\ again2 = None
    /\ diff_grid = None
    /\ rev_grid = None /\ rev_differences = None
    /\ diff_type = None
    /\ WorkbookIdle /\ SheetIdle /\ ScanIdle /\ ColumnIdle

\* The inner loop body on the pair, as written and with its tests in the
\* order test_order.
ClassifyCell ==
    /\ pc = "pair"
    /\ cell_result' = compare_cell(old_cell, new_cell, has_differences)
    /\ ordered_result' = compare_cell_ordered(test_order, old_cell, new_cell,
                                              has_differences)
    /\ has_differences' = compare_cell(old_cell, new_cell, has_differences).flag
    /\ pc' = "classified"
    /\ UNCHANGED <<old_cell, new_cell, test_order>>
    /\ UNCHANGED <<data1, data2, norm1, norm2, again1, again2, diff_grid,
                   rev_grid, rev_differences, diff_type, wbvars, worksheet,
                   extracted, row_idx, col_idx, scan_row, column, letter_idx,
                   letters>>

NextCell == ClassifyCell

SpecCell == InitCell /\ [][NextCell]_vars

---------------------------------------------------------------------------
(* get_column_letter: the loop one iteration per step.  A string is written *)
(* as the sequence of its code points, "A" is <<65>>.                       *)

\* chr(code): the string of the one character with that code point.
chr(code) == <<code>>

\* A plausible slip: divmod(col_idx, 26), the "- 1" of the bijective
\* numeration forgotten.
column_step_plain_base26(idx, name) ==
    LET quotient == idx \div 26
        remainder == idx % 26
    IN  [col_idx |-> quotient, result |-> chr(65 + remainder) \o name]

\* col_idx, remainder = divmod(col_idx - 1, 26);
\* result = chr(65 + remainder) + result
column_step(idx, name) ==
    LET quotient == (idx - 1) \div 26
        remainder == (idx - 1) % 26
    IN  [col_idx |-> quotient, result |-> chr(65 + remainder) \o name]

\* while col_idx > 0: ...; return result
RECURSIVE LetterLoop(_, _)
LetterLoop(idx, name) ==
    IF idx > 0
    THEN LetterLoop(column_step(idx, name).col_idx, column_step(idx, name).result)
    ELSE name

\* result = ""; col_idx += 1; the loop
get_column_letter(idx) == LetterLoop(idx + 1, << >>)

\* The call has run result = ""; col_idx += 1 and stands before the loop.
InitColumn ==
    /\ column \in 0..MaxColumn
    /\ letters = << >>
    /\ letter_idx = column + 1
    /\ pc = "loop"
    /\ EngineIdle /\ WorkbookIdle /\ SheetIdle /\ CellIdle /\ ScanIdle

columnrest == <<enginevars, wbvars, worksheet, extracted, old_cell, new_cell,
                test_order, cell_result, ordered_result, row_idx, col_idx,
                scan_row>>

\* One iteration of the while loop.
LetterStep ==
    /\ pc = "loop"
    /\ letter_idx > 0
    /\ letter_idx' = column_step(letter_idx, letters).col_idx
    /\ letters' = column_step(letter_idx, letters).result
    /\ UNCHANGED <<pc, column, columnrest>>

\* The loop condition fails: return result
LetterReturn ==
    /\ pc = "loop"
    /\ ~(letter_idx > 0)
    /\ pc' = "named"
    /\ UNCHANGED <<column, letter_idx, letters, columnrest>>

NextColumn ==
    \/ LetterStep
    \/ LetterReturn

SpecColumn == InitColumn /\ [][NextColumn]_vars

\* The call runs on: a step that can be taken is taken.
SpecColumnFair == SpecColumn /\ WF_vars(NextColumn)

---------------------------------------------------------------------------
(* What the properties below are stated against: the padded view of an     *)
(* input grid, written without the code's helpers.                         *)

\* The number of rows and of columns both normalized grids must have.
TargetRows(g1, g2) == IF Len(g1) >= Len(g2) THEN Len(g1) ELSE Len(g2)

LongestRow(g) ==
    IF g = << >> THEN 0
    ELSE CHOOSE n \in {Len(g[i]) : i \in 1..Len(g)} :
             \A i \in 1..Len(g) : Len(g[i]) <= n

TargetCols(g1, g2) ==
    IF LongestRow(g1) >= LongestRow(g2) THEN LongestRow(g1) ELSE LongestRow(g2)

\* The cell of g at (i, j), blank where g has none.
PaddedAt(g, i, j) ==
    IF i \in 1..Len(g) /\ j \in 1..Len(g[i]) THEN g[i][j] ELSE Blank

Positions(g1, g2) == (1..TargetRows(g1, g2)) \X (1..TargetCols(g1, g2))

HasCellAt(grid, i, j) == i \in 1..Len(grid) /\ j \in 1..Len(grid[i].cells)

CellTypesIn(grid) ==
    {grid[i].cells[j].type : <<i, j>> \in
        {p \in (1..Len(grid)) \X (1..MaxCells) : p[2] <= Len(grid[p[1]].cells)}}

Ragged(g) == \E i, k \in 1..Len(g) : Len(g[i]) # Len(g[k])

---------------------------------------------------------------------------
(* Properties *)

\* The cell variant the classification rule prescribes for the string forms
\* old and new.
CellRule(old, new) ==
    CASE old = new -> [type |-> "unchanged", value |-> old]
      [] old = "" /\ new # "" -> [type |-> "added", value |-> new]
      [] old # "" /\ new = "" -> [type |-> "deleted", value |-> old]
      [] old # "" /\ new # "" /\ old # new ->
            [type |-> "modified", old_value |-> old, new_value |-> new]

\* C1: at every position (i, j) of the normalized grids compare_sheets emits
\* exactly the cell variant of the rule on the string forms: Unchanged(old)
\* when old = new, Added(new) when only old is blank, Deleted(old) when only
\* new is blank, Modified(old, new) when both are non-blank and differ.
C1_CellRule ==
    pc = "compared" =>
        \A p \in Positions(data1, data2) :
            /\ HasCellAt(diff_grid, p[1], p[2])
            /\ diff_grid[p[1]].cells[p[2]] =
                   CellRule(Str(PaddedAt(data1, p[1], p[2])),
                            Str(PaddedAt(data2, p[1], p[2])))

C1_Witness ==
    /\ pc = "compared"
    /\ CellTypesIn(diff_grid) = {"unchanged", "added", "deleted", "modified"}

\* C2: the diff_grid of compare_sheets has max(rows(old), rows(new)) rows
\* and every row has max(longest row of old, longest row of new) cells,
\* ragged inputs included.
C2_DiffGridShape ==
    pc = "compared" =>
        /\ Len(diff_grid) = TargetRows(data1, data2)
        /\ \A i \in 1..Len(diff_grid) :
               Len(diff_grid[i].cells) = TargetCols(data1, data2)

C2_Witness ==
    /\ pc = "compared"
    /\ Ragged(data1)
    /\ Len(data1) # Len(data2)
    /\ LongestRow(data1) # LongestRow(data2)
    /\ Len(diff_grid) = 2
    /\ Len(diff_grid[2].cells) = 2

\* C3: has_differences is true iff some cell of the returned diff_grid is
\* not Unchanged.
C3_FlagIffChangedCell ==
    pc = "compared" =>
        (has_differences = TRUE <=> CellTypesIn(diff_grid) \ {"unchanged"} # {})

C3_Witness ==
    /\ pc = "compared"
    /\ has_differences = TRUE
    /\ CellTypesIn(diff_grid) = {"unchanged", "modified"}
    /\ diff_grid[Len(diff_grid)].cells[Len(diff_grid[Len(diff_grid)].cells)].type
           = "unchanged"

\* Whole-row emptiness of row i of the padded view of g, over cols columns.
RowBlank(g, i, cols) == \A j \in 1..cols : PaddedAt(g, i, j) = Blank

RowRule(old_empty, new_empty) ==
    IF old_empty /\ ~new_empty THEN "added_row"
    ELSE IF ~old_empty /\ new_empty THEN "deleted_row"
    ELSE "unchanged"

\* C4: the row_type of each row depends only on whole-row emptiness of the
\* normalized rows: added_row iff old is all blank and new is not,
\* deleted_row iff new is all blank and old is not, otherwise unchanged,
\* whatever the cells of the row were classified as.
C4_RowType ==
    pc = "compared" =>
        \A i \in 1..TargetRows(data1, data2) :
            /\ i \in 1..Len(diff_grid)
            /\ diff_grid[i].row_type =
                   RowRule(RowBlank(data1, i, TargetCols(data1, data2)),
                           RowBlank(data2, i, TargetCols(data1, data2)))

C4_Witness ==
    /\ pc = "compared"
    /\ \E i \in 1..Len(diff_grid) :
           /\ diff_grid[i].row_type = "unchanged"
           /\ {diff_grid[i].cells[j].type : j \in 1..Len(diff_grid[i].cells)}
                  = {"added", "deleted"}
    /\ \E i \in 1..Len(diff_grid) : diff_grid[i].row_type = "added_row"

\* C5: both grids returned by normalize_dimensions have max(len(g1), len(g2))
\* rows and every row of both is as long as the longest row of either input
\* (0 when there is no row or every row is empty).
C5_NormalizedShape ==
    pc = "normalized" =>
        /\ Len(norm1) = TargetRows(data1, data2)
        /\ Len(norm2) = TargetRows(data1, data2)
        /\ \A i \in 1..Len(norm1) : Len(norm1[i]) = TargetCols(data1, data2)
        /\ \A i \in 1..Len(norm2) : Len(norm2[i]) = TargetCols(data1, data2)

C5_Witness ==
    /\ pc = "normalized"
    /\ Ragged(data2)
    /\ Len(data1) < Len(data2)
    /\ LongestRow(data1) < LongestRow(data2)
    /\ Len(norm1) = 2
    /\ Len(norm1[2]) = 2

\* The normalized grid n keeps every cell of g in place and is blank elsewhere.
KeepsContent(g, n) ==
    /\ \A i \in 1..Len(g) : i <= Len(n) /\ Len(g[i]) <= Len(n[i])
    /\ \A i \in 1..Len(n) : \A j \in 1..Len(n[i]) : n[i][j] = PaddedAt(g, i, j)

\* C6: normalize_dimensions never truncates or alters content: every cell
\* g[i][j] of an input is at (i, j) of its normalized grid and every other
\* position of the normalized grid is blank.
C6_NormalizeKeepsContent ==
    pc = "normalized" => KeepsContent(data1, norm1) /\ KeepsContent(data2, norm2)

C6_Witness ==
    /\ pc = "normalized"
    /\ Len(data1) = 1 /\ Len(data1[1]) = 1 /\ data1[1][1] # Blank
    /\ Len(norm1) = 2 /\ Len(norm1[1]) = 2
    /\ norm1[1][1] = data1[1][1]

\* C7: normalization is idempotent: normalize_dimensions applied to the pair
\* it returned gives that pair again, in shape and content.
C7_NormalizeIdempotent ==
    pc = "renormalized" => again1 = norm1 /\ again2 = norm2

C7_Witness ==
    /\ pc = "renormalized"
    /\ norm1 # data1
    /\ norm2 # data2
    /\ Ragged(data1)

\* C8: compare_sheets(g, g) returns has_differences = false and only
\* Unchanged cells.
C8_Reflexive ==
    (pc = "compared" /\ data1 = data2) =>
        /\ has_differences = FALSE
        /\ CellTypesIn(diff_grid) \subseteq {"unchanged"}

C8_Witness ==
    /\ pc = "compared"
    /\ data1 = data2
    /\ \E i \in 1..Len(data1) :
           /\ \E j \in 1..Len(data1[i]) : ~IsText(data1[i][j])
           /\ \E j \in 1..Len(data1[i]) : data1[i][j] = Text("a")
    /\ Len(diff_grid) = Len(data1)

\* The cell of the opposite direction: Added <-> Deleted with the same value,
\* the two fields of Modified exchanged, Unchanged as it is.
SwappedCell(c) ==
    CASE c.type = "added" -> [type |-> "deleted", value |-> c.value]
      [] c.type = "deleted" -> [type |-> "added", value |-> c.value]
      [] c.type = "modified" ->
            [type |-> "modified", old_value |-> c.new_value,
             new_value |-> c.old_value]
      [] c.type = "unchanged" -> c

\* C9: the cells of compare_sheets(g2, g1) are those of compare_sheets(g1, g2)
\* with Added and Deleted exchanged (same value), the fields of Modified
\* exchanged and Unchanged identical; has_differences is the same both ways.
C9_Antisymmetric ==
    pc = "reversed" =>
        /\ rev_differences = has_differences
        /\ Len(rev_grid) = Len(diff_grid)
        /\ \A i \in 1..Len(diff_grid) :
               /\ Len(rev_grid[i].cells) = Len(diff_grid[i].cells)
               /\ \A j \in 1..Len(diff_grid[i].cells) :
                      rev_grid[i].cells[j] = SwappedCell(diff_grid[i].cells[j])

C9_Witness ==
    /\ pc = "reversed"
    /\ CellTypesIn(diff_grid) = {"unchanged", "added", "deleted", "modified"}
    /\ CellTypesIn(rev_grid) = {"unchanged", "added", "deleted", "modified"}

\* The grid handed to create_single_sheet_diff.
SingleInput == IF diff_type = "deleted" THEN data1 ELSE data2

\* C10: create_single_sheet_diff tags every cell of the grid, blank ones
\* included, Deleted(value) for the old side and Added(value) for the new
\* side, and every row, all-blank ones included, deleted_row or added_row;
\* no Unchanged or Modified cell and no Unchanged row appears.
C10_SingleSidedTotal ==
    pc = "single" =>
        /\ Len(diff_grid) = Len(SingleInput)
        /\ \A i \in 1..Len(diff_grid) :
               /\ diff_grid[i].row_type =
                      (IF diff_type = "deleted" THEN "deleted_row" ELSE "added_row")
               /\ Len(diff_grid[i].cells) = Len(SingleInput[i])
               /\ \A j \in 1..Len(diff_grid[i].cells) :
                      diff_grid[i].cells[j] =
                          [type |-> diff_type, value |-> Str(SingleInput[i][j])]

C10_Witness ==
    /\ pc = "single"
    /\ diff_type = "deleted"
    /\ Len(data1) = 2
    /\ data1[1] = <<Blank, Blank>>
    /\ data1[2] = <<Blank, Number(5)>>
    /\ Len(diff_grid) = 2

\* C18: the engine leaves its inputs as they were: across every call of
\* normalize_dimensions, compare_sheets and create_single_sheet_diff the grids
\* passed in keep their row count, row lengths and cells; padding reaches
\* fresh copies only.
C18_InputsUntouched ==
    [][/\ data1' = data1
       /\ data2' = data2
       /\ (pc = "normalized" => norm1' = norm1 /\ norm2' = norm2)]_vars

C18_Witness ==
    /\ pc = "compared"
    /\ Len(data1) < Len(data2)
    /\ \E i \in 1..Len(data1) : Len(diff_grid[i].cells) > Len(data1[i])

\* Row i of the input grid g holds no non-blank cell: g has no row i, or the
\* row is of length zero, or all its cells are blank.
NoContent(g, i) == i > Len(g) \/ \A j \in 1..Len(g[i]) : g[i][j] = Blank

\* Row i is missing or of length zero on one side and present on the other.
OneSidedRow(i) ==
    \/ i > Len(data1) \/ i > Len(data2)
    \/ Len(data1[i]) = 0 \/ Len(data2[i]) = 0

\* C20: row emptiness is evaluated on the normalized rows, so a row that one
\* grid lacks (or holds shorter, or with no cell) counts as all blank there:
\* added_row when only the new side has a non-blank cell, deleted_row when
\* only the old side has one, and unchanged with every cell Unchanged("")
\* when the side that exists is all blank too.
C20_MissingRowIsBlank ==
    pc = "compared" =>
        \A i \in 1..Len(diff_grid) :
            /\ (NoContent(data1, i) /\ ~NoContent(data2, i))
                   => diff_grid[i].row_type = "added_row"
            /\ (~NoContent(data1, i) /\ NoContent(data2, i))
                   => diff_grid[i].row_type = "deleted_row"
            /\ (NoContent(data1, i) /\ NoContent(data2, i))
                   => /\ diff_grid[i].row_type = "unchanged"
                      /\ \A j \in 1..Len(diff_grid[i].cells) :
                             diff_grid[i].cells[j] =
                                 [type |-> "unchanged", value |-> ""]

C20_Witness ==
    /\ pc = "compared"
    /\ data1 = << << >> >>
    /\ Len(data2) = 2
    /\ data2[2] = <<Blank>>
    /\ OneSidedRow(1) /\ OneSidedRow(2)
    /\ diff_grid[1].row_type = "added_row"
    /\ diff_grid[2] = [row_type |-> "unchanged",
                       cells |-> <<[type |-> "unchanged", value |-> ""]>>]

\* Every value stored in the cell c is a string form of the source cells old
\* and new.
StoresStrings(c, old, new) ==
    IF c.type = "modified"
    THEN c.old_value = Str(old) /\ c.new_value = Str(new)
    ELSE c.value \in {Str(old), Str(new)}

\* C19: cells are compared by string form only: two non-blank cells of equal
\* string form (the number 5 and the text "5") are Unchanged, and every value
\* stored in a diff cell, two-sided or one-sided, is the string form of the
\* source cell, "" for the blank sentinel.
C19_StringFormOnly ==
    /\ pc = "compared" =>
           \A p \in Positions(data1, data2) :
               LET old == PaddedAt(data1, p[1], p[2])
                   new == PaddedAt(data2, p[1], p[2])
                   c == diff_grid[p[1]].cells[p[2]]
               IN  /\ (old # Blank /\ new # Blank /\ Str(old) = Str(new))
                          => c = [type |-> "unchanged", value |-> Str(old)]
                   /\ StoresStrings(c, old, new)
                   /\ (old = Blank /\ new = Blank) => c.value = ""
    /\ pc = "single" =>
           \A i \in 1..Len(diff_grid) : \A j \in 1..Len(diff_grid[i].cells) :
               diff_grid[i].cells[j].value = Str(SingleInput[i][j])

C19_Witness ==
    /\ pc = "compared"
    /\ data1 = <<<<Number(5), Text("5")>>>>
    /\ data2 = <<<<Text("5")>>>>
    /\ diff_grid[1].cells = <<[type |-> "unchanged", value |-> "5"],
                              [type |-> "deleted", value |-> "5"]>>
    /\ has_differences = TRUE

DiffCells ==
    [type : {"unchanged", "added", "deleted"}, value : STRING] \cup
    [type : {"modified"}, old_value : STRING, new_value : STRING]

IsList(x) == DOMAIN x = 1..Len(x)

IsGrid(g) ==
    /\ IsList(g)
    /\ \A i \in 1..Len(g) :
           IsList(g[i]) /\ \A j \in 1..Len(g[i]) : DOMAIN g[i][j] \in {{"str"}, {"int"}}

IsDiffGrid(g) ==
    /\ IsList(g)
    /\ \A i \in 1..Len(g) :
           /\ g[i].row_type \in {"unchanged", "added_row", "deleted_row"}
           /\ IsList(g[i].cells)
           /\ \A j \in 1..Len(g[i].cells) : g[i].cells[j] \in DiffCells

\* C14: normalize_dimensions, compare_sheets and create_single_sheet_diff can
\* be called on every pair of grids, zero rows and zero-column rows included,
\* and return a well-formed result; for two grids of zero rows compare_sheets
\* returns an empty diff_grid and has_differences = false.
C14_Total ==
    /\ pc = "start" =>
           /\ IsGrid(normalize_dimensions(data1, data2)[1])
           /\ IsGrid(normalize_dimensions(data1, data2)[2])
           /\ IsDiffGrid(compare_sheets(data1, data2).diff_grid)
           /\ compare_sheets(data1, data2).has_differences \in BOOLEAN
           /\ IsDiffGrid(create_single_sheet_diff(data1, "deleted"))
           /\ IsDiffGrid(create_single_sheet_diff(data2, "added"))
    /\ pc = "normalized" => IsGrid(norm1) /\ IsGrid(norm2)
    /\ pc = "compared" =>
           /\ IsDiffGrid(diff_grid)
           /\ has_differences \in BOOLEAN
           /\ (data1 = << >> /\ data2 = << >>)
                  => diff_grid = << >> /\ has_differences = FALSE
    /\ pc = "single" => IsDiffGrid(diff_grid)

C14_Witness ==
    /\ pc = "compared"
    /\ data1 = << >>
    /\ data2 = << >>
    /\ diff_grid = << >>
    /\ has_differences = FALSE

\* The string forms compared at position p of the normalized grids.
PairAt(g1, g2, p) ==
    <<Str(PaddedAt(g1, p[1], p[2])), Str(PaddedAt(g2, p[1], p[2]))>>

\* C15: the comparison is strictly positional: the cell at (i, j) is a
\* function of the old and the new value at (i, j) alone, in one call and
\* across calls, and nothing is re-aligned: a grid compared with itself
\* shifted down by an inserted first row is matched index for index.
C15_Positional ==
    pc = "reversed" =>
        /\ \A p, q \in Positions(data1, data2) :
               /\ PairAt(data1, data2, p) = PairAt(data1, data2, q)
                      => diff_grid[p[1]].cells[p[2]] = diff_grid[q[1]].cells[q[2]]
               /\ PairAt(data1, data2, p) = PairAt(data2, data1, q)
                      => diff_grid[p[1]].cells[p[2]] = rev_grid[q[1]].cells[q[2]]
        /\ (Len(data1) = 1 /\ Len(data2) = 2 /\ data2[2] = data1[1])
               => \A j \in 1..Len(data1[1]) :
                      /\ diff_grid[1].cells[j] =
                             CellRule(Str(data1[1][j]), Str(PaddedAt(data2, 1, j)))
                      /\ diff_grid[2].cells[j] = CellRule("", Str(data1[1][j]))

C15_Witness ==
    /\ pc = "reversed"
    /\ data1 = <<<<Text("a")>>>>
    /\ data2 = <<<<Number(5)>>, <<Text("a")>>>>
    /\ diff_grid[1].cells[1].type = "modified"
    /\ diff_grid[2].cells[1] = [type |-> "added", value |-> "a"]

---------------------------------------------------------------------------
(* Properties of the workbook comparison *)

\* "S1", "S10", "S2": the sheet names in ascending order of Python's strings.
AscendingNames == << <<83, 49>>, <<83, 49, 48>>, <<83, 50>> >>

AllSheets == DOMAIN wb1 \cup DOMAIN wb2

InAllSheets(name) == name \in AllSheets

NamesOf(list) == [i \in 1..Len(list) |-> list[i].name]

StatusesOf(list) == {list[i].status : i \in 1..Len(list)}

\* C11: the workbook comparison holds exactly one entry for each name of the
\* union of the old and the new sheet names, none repeated or left out, in
\* ascending lexicographic order of name.
C11_OnePerNameAscending ==
    pc = "done" =>
        /\ Len(comparisons) = Cardinality(AllSheets)
        /\ NamesOf(comparisons) = SelectSeq(AscendingNames, InAllSheets)

C11_Witness ==
    /\ pc = "done"
    /\ enum = << <<83, 50>>, <<83, 49, 48>>, <<83, 49>> >>
    /\ Len(comparisons) = 3
    /\ comparisons[2].name = <<83, 49, 48>>

\* The two-sided diff of the grids g1 and g2, from the rules of the cells and
\* of the rows.
ExpectedTwoSided(g1, g2) ==
    [i \in 1..TargetRows(g1, g2) |->
        [row_type |-> RowRule(RowBlank(g1, i, TargetCols(g1, g2)),
                              RowBlank(g2, i, TargetCols(g1, g2))),
         cells |-> [j \in 1..TargetCols(g1, g2) |->
                       CellRule(Str(PaddedAt(g1, i, j)), Str(PaddedAt(g2, i, j)))]]]

\* The one-sided diff of the grid g, every cell and row tagged.
ExpectedOneSided(g, tag, row_tag) ==
    [i \in 1..Len(g) |->
        [row_type |-> row_tag,
         cells |-> [j \in 1..Len(g[i]) |-> [type |-> tag, value |-> Str(g[i][j])]]]]

\* C12: the status of a sheet is decided by membership alone: compared iff
\* the name is in both workbooks, with the two-sided diff of the old grid
\* against the new grid; only_in_old iff it is in the old workbook only, with
\* the one-sided diff tagged deleted; only_in_new iff it is in the new
\* workbook only, with the one-sided diff tagged added.
C12_StatusByMembership ==
    pc = "done" =>
        \A i \in 1..Len(comparisons) :
            LET e == comparisons[i]
                in_old == e.name \in DOMAIN wb1
                in_new == e.name \in DOMAIN wb2
            IN  /\ e.status = "compared" <=> (in_old /\ in_new)
                /\ e.status = "only_in_old" <=> (in_old /\ ~in_new)
                /\ e.status = "only_in_new" <=> (~in_old /\ in_new)
                /\ (in_old /\ in_new) =>
                       /\ e.diff_grid =
                              ExpectedTwoSided(get_sheet_data(wb1[e.name]),
                                               get_sheet_data(wb2[e.name]))
                       /\ e.has_differences =
                              (CellTypesIn(e.diff_grid) \ {"unchanged"} # {})
                /\ (in_old /\ ~in_new) =>
                       e.diff_grid = ExpectedOneSided(get_sheet_data(wb1[e.name]),
                                                      "deleted", "deleted_row")
                /\ (~in_old /\ in_new) =>
                       e.diff_grid = ExpectedOneSided(get_sheet_data(wb2[e.name]),
                                                      "added", "added_row")

C12_Witness ==
    /\ pc = "done"
    /\ StatusesOf(comparisons) = {"compared", "only_in_old", "only_in_new"}
    /\ \E i \in 1..Len(comparisons) :
           /\ comparisons[i].status = "compared"
           /\ CellTypesIn(comparisons[i].diff_grid) = {"deleted"}
    /\ \E i \in 1..Len(comparisons) :
           /\ comparisons[i].status = "only_in_new"
           /\ CellTypesIn(comparisons[i].diff_grid) = {"added"}

\* C13: every entry with status only_in_old or only_in_new has
\* has_differences = true, whatever the sheet holds, a sheet whose extracted
\* grid is empty or that is all blank included.
C13_OneSidedAlwaysDiffers ==
    pc = "done" =>
        \A i \in 1..Len(comparisons) :
            comparisons[i].status \in {"only_in_old", "only_in_new"}
                => comparisons[i].has_differences = TRUE

C13_Witness ==
    /\ pc = "done"
    /\ \E i, k \in 1..Len(comparisons) :
           /\ comparisons[i].status = "only_in_old"
           /\ wb1[comparisons[i].name] = <<<<PyNone>>>>
           /\ comparisons[i].diff_grid = << >>
           /\ comparisons[i].has_differences = TRUE
           /\ comparisons[k].status = "only_in_new"
           /\ wb2[comparisons[k].name] = << >>
           /\ comparisons[k].has_differences = TRUE

\* C16: two comparisons of the same workbook contents return the same list
\* (order, statuses, flags and diff grids) whatever the order in which the
\* sheet names are enumerated.
C16_Deterministic ==
    pc = "done2" => comparisons2 = comparisons

C16_Witness ==
    /\ pc = "done2"
    /\ Len(comparisons) = 3
    /\ enum = << <<83, 50>>, <<83, 49, 48>>, <<83, 49>> >>
    /\ enum2 = << <<83, 49, 48>>, <<83, 49>>, <<83, 50>> >>
    /\ StatusesOf(comparisons2) = {"compared", "only_in_old", "only_in_new"}

\* The workbook w with the sheet name alone.
OnlySheet(w, name) == [n \in DOMAIN w \cap {name} |-> w[n]]

\* C17: the sheet comparisons are independent: each entry depends on the old
\* and new grids of its own sheet only, and the entries of one task per sheet
\* name, completed in any order and then ordered by name, are the list of
\* the sequential run in sorted order.
C17_TasksInAnyOrder ==
    /\ pc = "tasks" =>
           \A i \in 1..Len(finished) :
               <<finished[i]>> = main_body(<< >>, finished[i].name,
                                           OnlySheet(wb1, finished[i].name),
                                           OnlySheet(wb2, finished[i].name))
    /\ pc = "collected" =>
           parallel = main_comparisons(wb1, wb2,
                          CHOOSE order \in Enumerations(AllSheets) : TRUE)

C17_Witness ==
    /\ pc = "collected"
    /\ Len(finished) = 3
    /\ NamesOf(finished) = << <<83, 50>>, <<83, 49>>, <<83, 49, 48>> >>
    /\ NamesOf(parallel) = AscendingNames
    /\ \E i, k \in 1..Len(parallel) :
           parallel[i].has_differences # parallel[k].has_differences

---------------------------------------------------------------------------
(* Properties of get_sheet_data *)

\* A cell of a sheet holds something: neither None nor "".
Filled(value) == value # PyNone /\ value # Blank

Largest(S) == CHOOSE m \in S : \A x \in S : x <= m

\* The last row and the last column of ws that hold a filled cell, 0 if none.
LastRowOf(ws) ==
    Largest({0} \cup {i \in 1..Len(ws) : \E j \in 1..Len(ws[i]) : Filled(ws[i][j])})

LastColOf(ws) ==
    Largest({0} \cup UNION {{j \in 1..Len(ws[i]) : Filled(ws[i][j])} :
                                i \in 1..Len(ws)})

\* C21: the grid returned by get_sheet_data is trimmed: it ends with the last
\* row and the last column of the sheet that hold a non-blank cell (so it is
\* empty, or its last row has a non-blank cell and some row has one in the
\* last column), all rows are equally long, no cell is None, and every cell
\* up to that row and column keeps its value (None read as "") and position,
\* interior blank rows and columns included.
C21_Trimmed ==
    pc = "extracted" =>
        /\ Len(extracted) = LastRowOf(worksheet)
        /\ \A i \in 1..Len(extracted) :
               /\ Len(extracted[i]) = LastColOf(worksheet)
               /\ \A j \in 1..Len(extracted[i]) :
                      /\ extracted[i][j] # PyNone
                      /\ extracted[i][j] =
                             (IF Filled(worksheet[i][j]) THEN worksheet[i][j]
                              ELSE Blank)
        /\ \/ extracted = << >>
           \/ /\ \E j \in 1..Len(extracted[Len(extracted)]) :
                      extracted[Len(extracted)][j] # Blank
              /\ \E i \in 1..Len(extracted) :
                      /\ Len(extracted[i]) > 0
                      /\ extracted[i][Len(extracted[i])] # Blank
        /\ \A i \in 1..Len(worksheet) : \A j \in 1..Len(worksheet[i]) :
               Filled(worksheet[i][j]) =>
                   /\ i <= Len(extracted) /\ j <= Len(extracted[i])
                   /\ extracted[i][j] = worksheet[i][j]

C21_Witness ==
    /\ pc = "extracted"
    /\ worksheet = << <<Text("a"), PyNone>>, <<PyNone, Blank>>,
                      <<Number(0), PyNone>> >>
    /\ extracted = << <<Text("a")>>, <<Blank>>, <<Number(0)>> >>

---------------------------------------------------------------------------
(* Further properties of the two-sided and the one-sided diff *)

UnchangedBlank == [type |-> "unchanged", value |-> ""]

\* Every cell of the row is of the type tag or Unchanged(""), one at least
\* of the type tag.
CellsOfRowAre(row, tag) ==
    /\ \A j \in 1..Len(row.cells) :
           row.cells[j].type = tag \/ row.cells[j] = UnchangedBlank
    /\ \E j \in 1..Len(row.cells) : row.cells[j].type = tag

\* C22: in a two-sided diff every cell of an added_row is Added or
\* Unchanged("") and one at least is Added, every cell of a deleted_row is
\* Deleted or Unchanged("") and one at least is Deleted; a diff_grid with an
\* added_row or a deleted_row has has_differences = true.
C22_RowTypeConstrainsCells ==
    pc = "compared" =>
        \A i \in 1..Len(diff_grid) :
            /\ diff_grid[i].row_type = "added_row"
                   => CellsOfRowAre(diff_grid[i], "added") /\ has_differences = TRUE
            /\ diff_grid[i].row_type = "deleted_row"
                   => CellsOfRowAre(diff_grid[i], "deleted") /\ has_differences = TRUE

C22_Witness ==
    /\ pc = "compared"
    /\ Len(diff_grid) = 2
    /\ diff_grid[1].row_type = "added_row"
    /\ {diff_grid[1].cells[j] : j \in 1..Len(diff_grid[1].cells)}
           = {UnchangedBlank, [type |-> "added", value |-> "a"]}
    /\ diff_grid[2].row_type = "deleted_row"
    /\ has_differences = TRUE

\* C23: in a two-sided diff the value of an Added and of a Deleted cell is
\* never "", the old_value and new_value of a Modified cell are both non-blank
\* and differ, and the value of an Unchanged cell is the string form of both
\* the old and the new cell at its position.
C23_VariantValues ==
    pc = "compared" =>
        \A i \in 1..Len(diff_grid) : \A j \in 1..Len(diff_grid[i].cells) :
            LET c == diff_grid[i].cells[j]
            IN  /\ c.type \in {"added", "deleted"} => c.value # ""
                /\ c.type = "modified" =>
                       /\ c.old_value # "" /\ c.new_value # ""
                       /\ c.old_value # c.new_value
                /\ c.type = "unchanged" =>
                       /\ c.value = Str(PaddedAt(data1, i, j))
                       /\ c.value = Str(PaddedAt(data2, i, j))

C23_Witness ==
    /\ pc = "compared"
    /\ CellTypesIn(diff_grid) = {"unchanged", "added", "deleted", "modified"}
    /\ \E i \in 1..Len(diff_grid) : \E j \in 1..Len(diff_grid[i].cells) :
           diff_grid[i].cells[j] = [type |-> "deleted", value |-> "5"]

\* The old and the new string a diff cell stands for.
OldOf(c) ==
    CASE c.type = "unchanged" -> c.value
      [] c.type = "deleted" -> c.value
      [] c.type = "added" -> ""
      [] c.type = "modified" -> c.old_value

NewOf(c) ==
    CASE c.type = "unchanged" -> c.value
      [] c.type = "added" -> c.value
      [] c.type = "deleted" -> ""
      [] c.type = "modified" -> c.new_value

RebuiltOld(grid) ==
    [i \in 1..Len(grid) |-> [j \in 1..Len(grid[i].cells) |-> OldOf(grid[i].cells[j])]]

RebuiltNew(grid) ==
    [i \in 1..Len(grid) |-> [j \in 1..Len(grid[i].cells) |-> NewOf(grid[i].cells[j])]]

\* The string forms of the cells of the grid g.
StringForms(g) == [i \in 1..Len(g) |-> [j \in 1..Len(g[i]) |-> Str(g[i][j])]]

\* C24: the two-sided diff is lossless: the old grid rebuilt from the cells
\* of diff_grid (value of Unchanged and Deleted, "" for Added, old_value of
\* Modified) and the new grid rebuilt likewise are the string forms of the
\* two grids normalize_dimensions returns for the inputs.
C24_Lossless ==
    pc = "compared" =>
        /\ RebuiltOld(diff_grid) = StringForms(normalize_dimensions(data1, data2)[1])
        /\ RebuiltNew(diff_grid) = StringForms(normalize_dimensions(data1, data2)[2])
        /\ \A p \in Positions(data1, data2) :
               /\ OldOf(diff_grid[p[1]].cells[p[2]]) = Str(PaddedAt(data1, p[1], p[2]))
               /\ NewOf(diff_grid[p[1]].cells[p[2]]) = Str(PaddedAt(data2, p[1], p[2]))

C24_Witness ==
    /\ pc = "compared"
    /\ CellTypesIn(diff_grid) = {"unchanged", "added", "deleted", "modified"}
    /\ RebuiltOld(diff_grid) # RebuiltNew(diff_grid)
    /\ Ragged(data1)
    /\ \E i \in 1..Len(data1) : \E j \in 1..Len(data1[i]) : ~IsText(data1[i][j])

\* The two grids hold the same cell at every position of their padded views.
SameUpToBlanks(g1, g2) ==
    \A p \in Positions(g1, g2) :
        PaddedAt(g1, p[1], p[2]) = PaddedAt(g2, p[1], p[2])

\* The two grids hold cells of the same string form at every position of
\* their padded views.
SameStringForms(g1, g2) ==
    \A p \in Positions(g1, g2) :
        Str(PaddedAt(g1, p[1], p[2])) = Str(PaddedAt(g2, p[1], p[2]))

\* C25 as stated: has_differences is false exactly when the two grids
\* returned by normalize_dimensions are equal.
C25_Original ==
    pc = "compared" =>
        (has_differences = FALSE <=>
             normalize_dimensions(data1, data2)[1] = normalize_dimensions(data1, data2)[2])

\* C25: compare_sheets reports has_differences = false exactly when the two
\* grids are equal in string form after normalization (they differ at most
\* by trailing blank cells, blank rows, row lengths, or by cells of one
\* string form such as the number 5 and the text "5"); a grid compared with
\* itself extended by blank rows or blank columns gives no differences,
\* only Unchanged cells and only Unchanged rows.
C25_NoDifferencesIffSameStrings ==
    pc = "compared" =>
        /\ has_differences = FALSE <=> SameStringForms(data1, data2)
        /\ has_differences = FALSE <=>
               StringForms(normalize_dimensions(data1, data2)[1])
                   = StringForms(normalize_dimensions(data1, data2)[2])
        /\ SameUpToBlanks(data1, data2) =>
               /\ has_differences = FALSE
               /\ \A i \in 1..Len(diff_grid) :
                      /\ diff_grid[i].row_type = "unchanged"
                      /\ \A j \in 1..Len(diff_grid[i].cells) :
                             diff_grid[i].cells[j].type = "unchanged"

C25_Witness ==
    /\ pc = "compared"
    /\ data1 = << <<Number(5)>> >>
    /\ data2 = << <<Text("5"), Blank>>, << >> >>
    /\ has_differences = FALSE
    /\ Len(diff_grid) = 2
    /\ Len(diff_grid[2].cells) = 2

\* C26: swapping the two arguments of compare_sheets swaps the row types:
\* row i is an added_row of compare_sheets(g1, g2) iff it is a deleted_row of
\* compare_sheets(g2, g1), a deleted_row iff an added_row there, and
\* unchanged in one iff unchanged in the other.
C26_RowTypesSwap ==
    pc = "reversed" =>
        /\ Len(rev_grid) = Len(diff_grid)
        /\ \A i \in 1..Len(diff_grid) :
               /\ diff_grid[i].row_type = "added_row"
                      <=> rev_grid[i].row_type = "deleted_row"
               /\ diff_grid[i].row_type = "deleted_row"
                      <=> rev_grid[i].row_type = "added_row"
               /\ diff_grid[i].row_type = "unchanged"
                      <=> rev_grid[i].row_type = "unchanged"

C26_Witness ==
    /\ pc = "reversed"
    /\ Len(diff_grid) = 2
    /\ diff_grid[1].row_type = "deleted_row"
    /\ rev_grid[1].row_type = "added_row"
    /\ diff_grid[2].row_type = "unchanged"
    /\ rev_grid[2].row_type = "unchanged"
    /\ CellTypesIn(diff_grid) = {"deleted", "modified"}

\* C27: the one-sided diff is not normalized: the diff_grid of
\* create_single_sheet_diff has as many rows as the grid and row i as many
\* cells as row i of the grid, ragged rows staying ragged and an empty grid
\* giving an empty diff_grid; each cell carries the string form of the cell
\* of the grid at its position.
C27_OneSidedKeepsShape ==
    pc = "single" =>
        /\ Len(diff_grid) = Len(SingleInput)
        /\ SingleInput = << >> => diff_grid = << >>
        /\ \A i \in 1..Len(SingleInput) :
               /\ Len(diff_grid[i].cells) = Len(SingleInput[i])
               /\ \A j \in 1..Len(SingleInput[i]) :
                      diff_grid[i].cells[j].value = Str(SingleInput[i][j])
        /\ Ragged(SingleInput) =>
               \E i, k \in 1..Len(diff_grid) :
                   Len(diff_grid[i].cells) # Len(diff_grid[k].cells)

C27_Witness ==
    /\ pc = "single"
    /\ diff_type = "added"
    /\ data2 = << <<Number(5)>>, <<Text("a"), Blank>> >>
    /\ Len(diff_grid[1].cells) = 1
    /\ Len(diff_grid[2].cells) = 2
    /\ diff_grid[1].cells[1].value = "5"

---------------------------------------------------------------------------
(* Properties of the scan of compare_sheets *)

\* The types of the cells the scan has classified so far: those of the rows
\* appended to diff_grid and those of the row in progress.
ProcessedTypes ==
    CellTypesIn(diff_grid) \cup
    (IF pc = "cells" THEN {scan_row[j].type : j \in 1..Len(scan_row)} ELSE {})

\* The number of cells classified so far.
ProcessedCount ==
    Len(diff_grid) * TargetCols(data1, data2) +
    (IF pc = "cells" THEN Len(scan_row) ELSE 0)

\* The scan ends with what compare_sheets returns.
ScanGivesCompareSheets ==
    pc = "returned" =>
        /\ diff_grid = compare_sheets(data1, data2).diff_grid
        /\ has_differences = compare_sheets(data1, data2).has_differences

\* C28: during the row-major scan of compare_sheets has_differences starts
\* false, is never reset to false once true, and after each processed cell
\* is true exactly when some cell processed so far was classified Added,
\* Deleted or Modified.
C28_FlagMonotone ==
    /\ [](pc \in {"rows", "cells", "returned"} =>
              /\ has_differences \in BOOLEAN
              /\ ProcessedCount = 0 => has_differences = FALSE
              /\ has_differences = (ProcessedTypes \ {"unchanged"} # {}))
    /\ [][(pc # "called" /\ has_differences) => has_differences']_vars

C28_Witness ==
    /\ pc = "cells"
    /\ has_differences = TRUE
    /\ Len(scan_row) = 2
    /\ scan_row[1].type = "modified"
    /\ scan_row[2].type = "unchanged"
    /\ row_idx < Len(norm1)

---------------------------------------------------------------------------
(* Properties of the classification of one pair of cells *)

\* The cases that hold of the string forms old and new: the three tests of
\* the code and "both non-blank and different".
CasesOf(old, new) ==
    {t \in TestNames : cell_tests(old, new)[t]} \cup
    (IF old # "" /\ new # "" /\ old # new THEN {"modified"} ELSE {})

\* C29: the four classification cases are mutually exclusive and exhaustive
\* over the pairs of string values: exactly one of them holds of a pair, the
\* cell is classified as that one, and the result is the same in whatever
\* order the tests are made.
C29_CasesExclusive ==
    pc = "classified" =>
        /\ Cardinality(CasesOf(Str(old_cell), Str(new_cell))) = 1
        /\ CasesOf(Str(old_cell), Str(new_cell)) = {cell_result.cell.type}
        /\ ordered_result = cell_result
        /\ \A o \in TestOrders :
               compare_cell_ordered(o, old_cell, new_cell, TRUE).cell
                   = cell_result.cell

C29_Witness ==
    /\ pc = "classified"
    /\ test_order = <<"deleted", "added", "unchanged">>
    /\ old_cell = Number(5)
    /\ new_cell = Text("5")
    /\ ordered_result.cell = [type |-> "unchanged", value |-> "5"]
    /\ has_differences = FALSE

---------------------------------------------------------------------------
(* Properties of get_column_letter *)

\* The number a column name stands for in bijective base 26: A..Z are the
\* digits 1..26.
RECURSIVE NameValue(_)
NameValue(name) ==
    IF name = << >> THEN 0
    ELSE NameValue(SubSeq(name, 1, Len(name) - 1)) * 26 + (name[Len(name)] - 64)

IsColumnName(name) ==
    /\ Len(name) >= 1
    /\ \A k \in 1..Len(name) : name[k] \in 65..90

\* C30: get_column_letter terminates for every index n >= 0 (each iteration
\* makes col_idx smaller, and the call returns) and returns the bijective
\* base-26 column name of n + 1: letters A..Z only, of value n + 1, so
\* 0 -> A, 25 -> Z, 26 -> AA, 701 -> ZZ, 702 -> AAA; no other index gives
\* the same name.
C30_ColumnName ==
    /\ <>(pc = "named")
    /\ [][(pc = "loop" /\ pc' = "loop") =>
              (letter_idx' < letter_idx /\ letter_idx' >= 0)]_vars
    /\ [](pc = "named" =>
              /\ IsColumnName(letters)
              /\ NameValue(letters) = column + 1
              /\ column = 0 => letters = <<65>>
              /\ column = 25 => letters = <<90>>
              /\ column = 26 => letters = <<65, 65>>
              /\ column = 701 => letters = <<90, 90>>
              /\ column = 702 => letters = <<65, 65, 65>>
              /\ letters = get_column_letter(column)
              /\ \A other \in 0..MaxColumn :
                     get_column_letter(other) = letters => other = column)

C30_Witness ==
    /\ pc = "named"
    /\ column = 702
    /\ letters = <<65, 65, 65>>
    /\ letter_idx = 0

====
